---- MODULE Spec2Model ----
(***************************************************************************)
(* Model of the dependency resolution engine of PYSTOIC                    *)
(* (src/PYSTOIC/requirements): the version codec, the demultiplexing of    *)
(* the batched commit query, the transitive collector and the              *)
(* orchestration of a resolution run; and of the package build of a        *)
(* workbook tree (src/PYSTOIC/runner.py).                                  *)
(*                                                                         *)
(* Python strings are modelled as sequences of one-character strings, so   *)
(* that replace, split, startswith and the regular expressions of the      *)
(* parsers are computed character by character.  Python's None is the      *)
(* one-element sequence None, which is no string of the model.  A         *)
(* function that may raise returns a record whose field err names the      *)
(* exception ("" when it returned normally).                               *)
(***************************************************************************)
EXTENDS Integers, Sequences, FiniteSets, TLC

VARIABLES
    \* version codec (utils.py: _wb, wb, parse_req, wb_req_parts)
    workbook, primary_branch, primary_commit, fallback_branch, fallback_commit,
    op, encoded, decoded,
    \* demultiplexing of the batched commit query (commits.py)
    response, hashes,
    \* transitive collector (utils.py: collect_requirements)
    store, initial_reqs, stack, visited, inspected, cstatus, cresult,
    \* the number of calls of collect_requirements made by its caller so far
    calls,
    \* a resolution run (install_api.py: install_requirements)
    phase, gh_token, env_token, workbooks, status_code, top_level_reqs,
    classified, wb_resolved, error, steps, events,
    \* the body of a response that is not a success, and the arguments of
    \* the exception raised for it (commits.py: latest_commit_hashes)
    text, message,
    \* the arguments of the functions applied on their own: reqs of
    \* resolve_wb_reqs, reqs of classify_reqs, req of wb_req_parts
    candidates, requirements, probe,
    \* the strings given to the two requirement parsers with the parser each
    \* goes through, and the Requirement values they return
    lines, parsed,
    \* a workbook tree (its properties, whether the package directory is
    \* there, its requirements.txt), what git reports in it, the workbook
    \* attribute of a SetupRunner and the keyword arguments of the calls of
    \* setuptools.setup it has made (runner.py)
    properties, package_root, requirements_txt, git_hash_short, git_branch,
    self_workbook, built

codecVars == <<workbook, primary_branch, primary_commit, fallback_branch,
               fallback_commit, op, encoded, decoded>>

demuxVars == <<response, hashes>>

collectVars ==
    <<store, initial_reqs, stack, visited, inspected, cstatus, cresult, calls>>

runVars == <<phase, gh_token, env_token, workbooks, status_code, top_level_reqs,
             classified, wb_resolved, error, steps, events, text, message>>

parseVars == <<lines, parsed>>

setupVars == <<properties, package_root, requirements_txt, git_hash_short,
               git_branch, self_workbook, built>>

inputVars == <<candidates, requirements, probe>>

vars == <<codecVars, demuxVars, collectVars, runVars, inputVars, parseVars,
          setupVars>>

----------------------------------------------------------------------------
(* Strings *)

None == <<"<None>">>

Truthy(x) == x # None /\ x # <<>>

\* str.startswith
StartsWith(s, p) == Len(s) >= Len(p) /\ SubSeq(s, 1, Len(p)) = p

\* s.find(sub, i), 1-based; 0 when sub does not occur from i on
RECURSIVE FindFrom(_, _, _)
FindFrom(s, sub, i) ==
    IF i + Len(sub) - 1 > Len(s) THEN 0
    ELSE IF SubSeq(s, i, i + Len(sub) - 1) = sub THEN i
    ELSE FindFrom(s, sub, i + 1)

\* str.find, 1-based; 0 when sub does not occur
Find(s, sub) == FindFrom(s, sub, 1)

\* the `in` operator on strings
Contains(s, sub) == Find(s, sub) # 0

\* str.split(sep)
RECURSIVE Split(_, _)
Split(s, sep) ==
    LET i == Find(s, sep)
    IN  IF i = 0 THEN <<s>>
        ELSE <<SubSeq(s, 1, i - 1)>> \o Split(SubSeq(s, i + Len(sep), Len(s)), sep)

\* str.replace(old, new)
RECURSIVE Replace(_, _, _)
Replace(s, old, new) ==
    LET i == Find(s, old)
    IN  IF i = 0 THEN s
        ELSE SubSeq(s, 1, i - 1) \o new \o Replace(SubSeq(s, i + Len(old), Len(s)), old, new)

\* sep.join(parts)
RECURSIVE Join(_, _)
Join(parts, sep) ==
    IF Len(parts) = 0 THEN <<>>
    ELSE IF Len(parts) = 1 THEN parts[1]
    ELSE parts[1] \o sep \o Join(Tail(parts), sep)

\* str.lower, on the letters of the model's alphabet
LowerChar(c) ==
    CASE c = "A" -> "a"
      [] c = "B" -> "b"
      [] c = "O" -> "o"
      [] c = "F" -> "f"
      [] OTHER -> c

Lower(s) == [i \in 1..Len(s) |-> LowerChar(s[i])]

IsSpace(c) == c = " "

----------------------------------------------------------------------------
(* Version codec *)

Ok(v) == [err |-> "", val |-> v]
Raise(e) == [err |-> e, val |-> <<>>]

ShortHashLen == 7

IndexDash == <<"i", "n", "d", "e", "x", "-">>
ZeroVersion == <<"0", ".", "0", ".", "0", "+">>

\* branch.replace("/", ".").replace("-", ".")
NormalizeBranch(branch) == Replace(Replace(branch, <<"/">>, <<".">>), <<"-">>, <<".">>)

CommitCheck_NoAssert(commit) == ""

\* the assert of _wb: len(None) raises TypeError
CommitCheck(commit) ==
    IF commit = None THEN "TypeError"
    ELSE IF Len(commit) # ShortHashLen THEN "AssertionError"
    ELSE ""

_wb(wbk, branch, commit) ==
    LET parts == Split(wbk, <<"/">>)
    IN  IF Len(parts) # 2 THEN Raise("ValueError")
        ELSE IF CommitCheck(commit) # "" THEN Raise(CommitCheck(commit))
        ELSE Ok(Lower(IndexDash \o parts[2]) \o <<"=", "=">>
                \o ZeroVersion \o NormalizeBranch(branch) \o <<".">> \o commit)

WbBranch(pb, pc, fb, fc) == IF Truthy(pc) THEN pb ELSE fb

WbCommit_PreferFallback(pb, pc, fb, fc) == IF Truthy(fc) THEN fc ELSE pc

WbCommit(pb, pc, fb, fc) == IF Truthy(pc) THEN pc ELSE fc

wb(wbk, pb, pc, fb, fc) == _wb(wbk, WbBranch(pb, pc, fb, fc), WbCommit(pb, pc, fb, fc))

\* class Requirement(NamedTuple)
Requirement(name, version) == [name |-> name, version |-> version]

\* Requirement.__str__
Str(req) ==
    IF Truthy(req.version) THEN req.name \o <<"=", "=">> \o req.version ELSE req.name

\* index of the first character after the whitespace run that starts at i
RECURSIVE SkipSpace(_, _)
SkipSpace(s, i) == IF i <= Len(s) /\ IsSpace(s[i]) THEN SkipSpace(s, i + 1) ELSE i

\* re.match(r"^(.+?)\s*==(.+?)$", s): the lengths of the name for which
\* the rest of the pattern matches; the lazy group takes the shortest
ParseReqSplits(s) ==
    {i \in 1..Len(s) :
        LET j == SkipSpace(s, i + 1)
        IN  /\ j + 2 <= Len(s)
            /\ SubSeq(s, j, j + 1) = <<"=", "=">>}

parse_req(s) ==
    LET m == ParseReqSplits(s)
    IN  IF m = {} THEN Requirement(s, None)
        ELSE LET i == CHOOSE i \in m : \A k \in m : i <= k
                 j == SkipSpace(s, i + 1)
             IN  Requirement(SubSeq(s, 1, i), SubSeq(s, j + 2, Len(s)))

NoParts == [err |-> "", branch |-> <<>>, commit |-> <<>>]

wb_req_parts_Lenient(req) ==
    IF req.version = None THEN NoParts
    ELSE LET plus == Split(req.version, <<"+">>)
             parts == Split(plus[Len(plus)], <<".">>)
         IN  [err |-> "",
              branch |-> Join(SubSeq(parts, 1, Len(parts) - 1), <<".">>),
              commit |-> parts[Len(parts)]]

wb_req_parts(req) ==
    IF req.version = None THEN [NoParts EXCEPT !.err = "AttributeError"]
    ELSE LET plus == Split(req.version, <<"+">>)
         IN  IF Len(plus) < 2 THEN [NoParts EXCEPT !.err = "IndexError"]
             ELSE LET parts == Split(plus[2], <<".">>)
                  IN  [err |-> "",
                       branch |-> Join(SubSeq(parts, 1, Len(parts) - 1), <<".">>),
                       commit |-> parts[Len(parts)]]

----------------------------------------------------------------------------
(* Inputs of the codec *)

MaxBranchLen == 2

BranchChars == {"a", "/", "-", ".", "+"}

RECURSIVE StringsUpTo(_, _)
StringsUpTo(chars, n) ==
    IF n = 0 THEN {<<>>}
    ELSE LET shorter == StringsUpTo(chars, n - 1)
         IN  shorter \cup {Append(s, c) : s \in shorter, c \in chars}

Branches == StringsUpTo(BranchChars, MaxBranchLen) \ {<<>>}

HashPrefix == <<"a", "b", "c", "1", "2">>
CommitChars == {"3", "g", "."}

\* strings of 6, 7 and 8 characters, hexadecimal or not
Commits ==
    {HashPrefix \o t : t \in {u \in StringsUpTo(CommitChars, 3) : Len(u) >= 1}}

Workbooks == {<<"o", "/", "a">>, <<"O", "/", "A", "b">>, <<"a", "b">>}

FallbackBranches == {<<"m">>, <<"d", "/", "x">>}

FallbackCommits == {None, <<>>, <<"d", "e", "f", "5", "6", "7", "8">>}

NotYet == [err |-> "pending", val |-> <<>>]
NotDecoded == [err |-> "pending", branch |-> <<>>, commit |-> <<>>]

CodecIdle ==
    /\ workbook = <<>>
    /\ primary_branch = <<>>
    /\ primary_commit = None
    /\ fallback_branch = <<>>
    /\ fallback_commit = None
    /\ op = ""
    /\ encoded = NotYet
    /\ decoded = NotDecoded

QueryFailed_NoBody(code, body) == [status |-> code, text |-> ""]

\* the arguments of the exception of latest_commit_hashes
QueryFailed(code, body) == [status |-> code, text |-> body]

NoMessage == QueryFailed(0, "")

\* no resolution run is in progress
RunIdle ==
    /\ phase = "off"
    /\ gh_token = None
    /\ env_token = None
    /\ workbooks = <<>>
    /\ status_code = 0
    /\ top_level_reqs = NotYet
    /\ classified = [err |-> "pending", wb |-> <<>>, py |-> <<>>]
    /\ wb_resolved = NotYet
    /\ error = ""
    /\ steps = <<>>
    /\ events = <<>>
    /\ text = ""
    /\ message = NoMessage

\* nothing is given to the parsers
ParseIdle ==
    /\ lines = <<>>
    /\ parsed = <<>>

\* there is no workbook tree and no SetupRunner
SetupIdle ==
    /\ properties = <<>>
    /\ package_root = FALSE
    /\ requirements_txt = None
    /\ git_hash_short = None
    /\ git_branch = None
    /\ self_workbook = <<>>
    /\ built = <<>>

\* no function is applied on its own
InputIdle ==
    /\ candidates = <<>>
    /\ requirements = {}
    /\ probe = None
    /\ ParseIdle
    /\ SetupIdle

CodecInit ==
    /\ workbook \in Workbooks
    /\ primary_branch \in Branches
    /\ primary_commit \in Commits \cup {None, <<>>}
    /\ fallback_branch \in FallbackBranches
    /\ fallback_commit \in FallbackCommits
    /\ op = ""
    /\ encoded = NotYet
    /\ decoded = NotDecoded
    /\ response = <<>>
    /\ hashes = [err |-> "pending", names |-> <<>>, val |-> <<>>]
    /\ store = [w \in {} |-> {}]
    /\ initial_reqs = {}
    /\ stack = <<>>
    /\ visited = {}
    /\ inspected = <<>>
    /\ cstatus = "off"
    /\ calls = 0
    /\ cresult = [returned |-> FALSE, reqs |-> {}]
    /\ RunIdle
    /\ InputIdle

\* encode(workbook, branch, commit)
Encode ==
    /\ op = ""
    /\ primary_commit # None
    /\ op' = "encode"
    /\ encoded' = _wb(workbook, primary_branch, primary_commit)
    /\ UNCHANGED <<workbook, primary_branch, primary_commit, fallback_branch,
                   fallback_commit, decoded, demuxVars, collectVars, runVars, inputVars, parseVars, setupVars>>

\* encode_with_fallback(workbook, primary_branch, primary_commit, ...)
EncodeWithFallback ==
    /\ op = ""
    /\ op' = "wb"
    /\ encoded' = wb(workbook, primary_branch, primary_commit,
                     fallback_branch, fallback_commit)
    /\ UNCHANGED <<workbook, primary_branch, primary_commit, fallback_branch,
                   fallback_commit, decoded, demuxVars, collectVars, runVars, inputVars, parseVars, setupVars>>

\* decode(requirement) of the requirement that was encoded
Decode ==
    /\ op # ""
    /\ encoded.err = ""
    /\ decoded = NotDecoded
    /\ decoded' = wb_req_parts(parse_req(encoded.val))
    /\ UNCHANGED <<workbook, primary_branch, primary_commit, fallback_branch,
                   fallback_commit, op, encoded, demuxVars, collectVars, runVars, inputVars, parseVars, setupVars>>

CodecNext == Encode \/ EncodeWithFallback \/ Decode

SpecCodec == CodecInit /\ [][CodecNext]_vars

----------------------------------------------------------------------------
(* Batched commit fetcher: demultiplexing (commits.py) *)

\* key = repo.replace("/", "___")
Alias(repo) == Replace(repo, <<"/">>, <<"_", "_", "_">>)

\* repo_with_org = repo.replace("___", "/")
RepoWithOrg(key) == Replace(key, <<"_", "_", "_">>, <<"/">>)

(* The JSON value of one ref lookup, flattened along the only path the      *)
(* code reads: ref -> target -> history -> edges -> [0] -> node ->          *)
(* abbreviatedOid.  null_at names the first value on that path that is      *)
(* null ("edges_empty": the list of edges is empty; "none": nothing is      *)
(* null and oid is the short hash).                                         *)
Ref(null_at, oid) == [null_at |-> null_at, oid |-> oid]

\* data[...]["target"]["history"]["edges"][0]["node"]["abbreviatedOid"]
\*     if data[...] else None
RefCommit(ref) ==
    CASE ref.null_at = "ref" -> Ok(None)
      [] ref.null_at \in {"target", "history", "edges", "edge0", "node"} -> Raise("TypeError")
      [] ref.null_at = "edges_empty" -> Raise("IndexError")
      [] ref.null_at = "oid" -> Ok(None)
      [] OTHER -> Ok(ref.oid)

NeitherFound_Never(primary, fallback) == FALSE

\* primary is None and fallback is None
NeitherFound(primary, fallback) == primary = None /\ fallback = None

CommitPair(wbk, primary, fallback) ==
    [workbook |-> wbk, primary |-> primary, fallback |-> fallback]

Transformed(err, names, val) == [err |-> err, names |-> names, val |-> val]

\* the loop of transform_graphql_response from the i-th item of the response
RECURSIVE TransformFrom(_, _, _)
TransformFrom(resp, i, result) ==
    IF i > Len(resp) THEN Transformed("", <<>>, result)
    ELSE LET item == resp[i]
             primary == IF item.data_null THEN Raise("TypeError")
                        ELSE RefCommit(item.primaryBranch)
             fallback == RefCommit(item.fallbackBranch)
             repo_with_org == RepoWithOrg(item.repo)
         IN  IF primary.err # "" THEN Transformed(primary.err, <<>>, <<>>)
             ELSE IF fallback.err # "" THEN Transformed(fallback.err, <<>>, <<>>)
             ELSE IF NeitherFound(primary.val, fallback.val)
                  THEN Transformed("ValueError", repo_with_org, <<>>)
             ELSE TransformFrom(resp, i + 1,
                     Append(result, CommitPair(repo_with_org, primary.val, fallback.val)))

transform_graphql_response(resp) == TransformFrom(resp, 1, <<>>)

(* Inputs of the demultiplexing *)

MaxRepos == 2

Repos == {<<"o", "/", "a">>, <<"o", "/", "b">>, <<"o", "/", "a", "_", "_", "_", "b">>}

ShortHash == <<"a", "b", "c", "1", "2", "3", "4">>

PrimaryRefs ==
    {Ref(n, None) : n \in {"ref", "target", "history", "edges", "edges_empty",
                           "edge0", "node", "oid"}}
    \cup {Ref("none", ShortHash)}

FallbackRefs ==
    {Ref(n, None) : n \in {"ref", "target", "edges_empty", "oid"}}
    \cup {Ref("none", <<"d", "e", "f", "5", "6", "7", "8">>)}

\* the value of one key of the response: null, or the two ref lookups
Datas ==
    [data_null : {FALSE}, primaryBranch : PrimaryRefs, fallbackBranch : FallbackRefs]
    \cup [data_null : {TRUE}, primaryBranch : {Ref("ref", None)},
          fallbackBranch : {Ref("ref", None)}]

Item(key, data) ==
    [repo |-> key, data_null |-> data.data_null,
     primaryBranch |-> data.primaryBranch, fallbackBranch |-> data.fallbackBranch]

\* a JSON object has one value per key
KeyLists(n) ==
    {k \in [1..n -> {Alias(r) : r \in Repos}] : \A i, j \in 1..n : k[i] = k[j] => i = j}

NotTransformed == Transformed("pending", <<>>, <<>>)

DemuxIdle ==
    /\ response = <<>>
    /\ hashes = NotTransformed

DemuxInit ==
    /\ \E n \in 0..MaxRepos :
          \E keys \in KeyLists(n), datas \in [1..n -> Datas] :
              response = [i \in 1..n |-> Item(keys[i], datas[i])]
    /\ hashes = NotTransformed
    /\ CodecIdle
    /\ store = [w \in {} |-> {}]
    /\ initial_reqs = {}
    /\ stack = <<>>
    /\ visited = {}
    /\ inspected = <<>>
    /\ cstatus = "off"
    /\ calls = 0
    /\ cresult = [returned |-> FALSE, reqs |-> {}]
    /\ RunIdle
    /\ InputIdle

Transform ==
    /\ hashes = NotTransformed
    /\ hashes' = transform_graphql_response(response)
    /\ UNCHANGED <<response, codecVars, collectVars, runVars, inputVars, parseVars, setupVars>>

DemuxNext == Transform

SpecDemux == DemuxInit /\ [][DemuxNext]_vars

----------------------------------------------------------------------------
(* Artifact inspector and transitive collector (utils.py) *)

WbPrefix == <<"i", "n", "d", "e", "x">>

WheelSuffix == <<"-", "p", "y", "3", "-", "n", "o", "n", "e", "-", "a", "n", "y",
                 ".", "w", "h", "l">>

\* package, version = req.split("=="); the file name of the wheel
req_to_wheel(req) ==
    LET parts == Split(req, <<"=", "=">>)
    IN  IF Len(parts) # 2 THEN Raise("ValueError")
        ELSE Ok(Replace(parts[1], <<"-">>, <<"_">>) \o <<"-">> \o parts[2] \o WheelSuffix)

\* re.match(r"^(.+?)\s*\(==(.+?)\)$", s): the lengths of the name for which
\* the rest of the pattern matches
PkginfoSplits(s) ==
    {i \in 1..Len(s) :
        LET j == SkipSpace(s, i + 1)
        IN  /\ j + 4 <= Len(s)
            /\ SubSeq(s, j, j + 2) = <<"(", "=", "=">>
            /\ s[Len(s)] = ")"}

parse_pkginfo_req(s) ==
    LET m == PkginfoSplits(s)
    IN  IF m = {} THEN Requirement(s, None)
        ELSE LET i == CHOOSE i \in m : \A k \in m : i <= k
                 j == SkipSpace(s, i + 1)
             IN  Requirement(SubSeq(s, 1, i), SubSeq(s, j + 3, Len(s) - 1))

\* the value of the store for a wheel file that is not there
Missing == {<<"<missing>">>}

RaiseSet(e) == [err |-> e, val |-> {}]

is_wb_req(req_str, wb_prefix) ==
    StartsWith(req_str, wb_prefix) /\ Contains(req_str, <<"=", "=">>)

(* Inputs of the collector *)

MaxDeclared == 2

\* the renderings of three internal requirements
ReqA == <<"i", "n", "d", "e", "x", "-", "a", "=", "=", "1">>
ReqB == <<"i", "n", "d", "e", "x", "-", "b", "=", "=", "1">>
ReqB2 == <<"i", "n", "d", "e", "x", "-", "b", "=", "=", "2">>

ExtName == <<"e", "x", "t">>
BareName == <<"i", "n", "d", "e", "x", "-", "d">>

\* "name (==version)", the form of a requirement in the metadata of a wheel
Pkginfo(req) ==
    LET r == parse_req(req)
    IN  IF r.version = None THEN r.name
        ELSE r.name \o <<" ", "(", "=", "=">> \o r.version \o <<")">>

InternalReqs == {ReqA, ReqB, ReqB2}

DeclaredPool == {Pkginfo(r) : r \in InternalReqs} \cup {ExtName}

WheelFiles == {req_to_wheel(r).val : r \in InternalReqs}

DeclaredSets == {d \in SUBSET DeclaredPool : Cardinality(d) <= MaxDeclared}

SeedPool == {ReqA, ReqB, BareName}

(* Inputs of a resolution run *)

MainBranch == <<"m">>
OtherBranch == <<"d", "/", "x">>

OtherHash == <<"d", "e", "f", "5", "6", "7", "8">>

\* an abbreviated hash of eight characters
LongHash == <<"a", "b", "c", "1", "2", "3", "4", "5">>

RepoA == <<"o", "/", "a">>
RepoB == <<"o", "/", "b">>

\* the seeds of the two workbooks, at the primary and at the fallback branch
SeedPA == _wb(RepoA, MainBranch, ShortHash).val
SeedFA == _wb(RepoA, OtherBranch, OtherHash).val
SeedPB == _wb(RepoB, MainBranch, ShortHash).val
SeedFB == _wb(RepoB, OtherBranch, OtherHash).val

RunSeedPool == {SeedPA, SeedFA, SeedPB, SeedFB}

ExtPinned == <<"e", "x", "t", " ", "(", "=", "=", "2", ")">>

RunDeclaredPool ==
    {Pkginfo(r) : r \in {SeedPA, SeedPB, SeedFB, ReqB}} \cup {ExtName, ExtPinned}

RunDeclaredSets ==
    {d \in SUBSET (RunDeclaredPool \ {Pkginfo(SeedPA)}) : Cardinality(d) <= MaxDeclared}

RunWheelFiles == {req_to_wheel(r).val : r \in RunSeedPool \cup {ReqB}}

\* the wheel files of pypi_local after a sync
RunStores ==
    {[w \in RunWheelFiles |->
        CASE w = req_to_wheel(SeedPA).val -> a
          [] w = req_to_wheel(SeedPB).val -> b
          [] w = req_to_wheel(SeedFA).val -> c
          [] OTHER -> {}] :
        a \in RunDeclaredSets \cup {Missing},
        b \in {Missing, {}, {Pkginfo(SeedPA)}, {ExtName}},
        c \in {Missing, {Pkginfo(SeedPB)}}}

(* The string functions, computed once over the strings a run can meet: the *)
(* seeds, the lines of the metadata and the renderings parsed from them.   *)

AllDeclared == DeclaredPool \cup RunDeclaredPool

Renderings ==
    SeedPool \cup RunSeedPool \cup {Str(parse_pkginfo_req(d)) : d \in AllDeclared}

\* req_to_wheel(req), for the renderings
WheelOf == [r \in Renderings |-> req_to_wheel(r)]

\* is_wb_req(req, "index"), for the renderings
IsWbReq == [r \in Renderings |-> is_wb_req(r, WbPrefix)]

\* parse_pkginfo_req(req_string), for the lines of the metadata
Parsed == [d \in AllDeclared |-> parse_pkginfo_req(d)]

wheel_file_reqs_BestEffort(files, wheel_file) ==
    IF wheel_file \notin DOMAIN files \/ files[wheel_file] = Missing
    THEN Ok({})
    ELSE Ok({Parsed[r] : r \in files[wheel_file]})

\* pkginfo.Wheel(wheel_file).requires_dist, parsed; pkginfo raises
\* ValueError when the file does not exist.  The list is modelled as a set:
\* its only use is the set direct_reqs_strs.
wheel_file_reqs(files, wheel_file) ==
    IF wheel_file \notin DOMAIN files \/ files[wheel_file] = Missing
    THEN RaiseSet("ValueError")
    ELSE Ok({Parsed[r] : r \in files[wheel_file]})

ShouldSkip_VisitedIgnored(req, seen) == ~IsWbReq[req]

ShouldSkip_ExternalExpanded(req, seen) == req \in seen

\* req in visited or not is_wb_req(req, wb_prefix)
ShouldSkip(req, seen) == req \in seen \/ ~IsWbReq[req]

Rest_NoAdvance(todo, req) == todo

\* the requirements the for loop has still to iterate over
Rest(todo, req) == todo \ {req}

Update_Dropped(all_reqs, reqs) == all_reqs

\* all_reqs.update(reqs)
Update(all_reqs, reqs) == all_reqs \cup reqs

\* one activation of collect_requirements: the requirements its for loop
\* has not iterated over yet, and its all_reqs
Frame(todo, all_reqs) == [todo |-> todo, all_reqs |-> all_reqs]

Top == stack[Len(stack)]

SetTop(frame) == [stack EXCEPT ![Len(stack)] = frame]

NoResult == [returned |-> FALSE, reqs |-> {}]

Returned(reqs) == [returned |-> TRUE, reqs |-> reqs]

AllReqs_Seeded(todo) == todo

\* all_reqs = set()
AllReqs(todo) == {}

FreshVisited_Kept(seen) == seen

\* if visited is None: visited = set()
FreshVisited(seen) == {}

\* collect_requirements(initial_reqs, ...) is entered with visited=None
Enter ==
    /\ cstatus' = "running"
    /\ calls' = calls + 1
    /\ visited' = FreshVisited(visited)
    /\ stack' = <<Frame(initial_reqs', AllReqs(initial_reqs'))>>
    /\ UNCHANGED <<inspected, cresult>>

\* a call over a store and a seed drawn from the inputs
Call ==
    /\ cstatus = "idle"
    /\ store' \in [WheelFiles -> DeclaredSets \cup {Missing}]
    /\ initial_reqs' \in SUBSET SeedPool
    /\ Enter

\* an iteration of the for loop that takes the `continue`
Skip(req) ==
    /\ cstatus = "running"
    /\ req \in Top.todo
    /\ ShouldSkip(req, visited)
    /\ stack' = SetTop(Frame(Rest(Top.todo, req), Top.all_reqs))
    /\ UNCHANGED <<store, initial_reqs, visited, inspected, cstatus, cresult, calls>>

\* wheel_path = f"{pypi_local}/{req_to_wheel(req)}";
\* direct_reqs = wheel_file_reqs(wheel_path)
DirectReqs(files, req) ==
    IF WheelOf[req].err # "" THEN RaiseSet(WheelOf[req].err)
    ELSE wheel_file_reqs(files, WheelOf[req].val)

\* direct_reqs_strs = {str(req) for req in direct_reqs}
DirectReqsStrs(direct_reqs) == {Str(r) : r \in direct_reqs.val}

\* nested_reqs = {req for req in direct_reqs_strs if is_wb_req(req, wb_prefix)}
NestedReqs(direct_reqs_strs) == {r \in direct_reqs_strs : IsWbReq[r]}

\* the stack after the wheel of req has been read: all_reqs updated, and
\* the recursive call entered when there are nested requirements
Expanded(files, frames, req) ==
    LET top == frames[Len(frames)]
        direct_reqs_strs == DirectReqsStrs(DirectReqs(files, req))
        nested_reqs == NestedReqs(direct_reqs_strs)
        below == [frames EXCEPT ![Len(frames)] =
                     Frame(Rest(top.todo, req), Update(top.all_reqs, direct_reqs_strs))]
    IN  IF nested_reqs # {} THEN Append(below, Frame(nested_reqs, AllReqs(nested_reqs))) ELSE below

\* an iteration of the for loop that inspects the wheel of req, up to the
\* recursive call; an exception unwinds every activation
Expand(req) ==
    /\ cstatus = "running"
    /\ req \in Top.todo
    /\ ~ShouldSkip(req, visited)
    /\ visited' = visited \cup {req}
    /\ inspected' = IF WheelOf[req].err # "" THEN inspected ELSE Append(inspected, req)
    /\ cstatus' = IF DirectReqs(store, req).err # "" THEN "failed" ELSE cstatus
    /\ stack' = IF DirectReqs(store, req).err # "" THEN <<>> ELSE Expanded(store, stack, req)
    /\ UNCHANGED <<store, initial_reqs, cresult, calls>>

\* return all_reqs: to the activation that called, which updates its own
\* all_reqs, or to the caller of collect_requirements
Return ==
    /\ cstatus = "running"
    /\ Top.todo = {}
    /\ IF Len(stack) > 1
       THEN /\ stack' = [SubSeq(stack, 1, Len(stack) - 1) EXCEPT ![Len(stack) - 1] =
                            Frame(@.todo, Update(@.all_reqs, Top.all_reqs))]
            /\ UNCHANGED <<cstatus, cresult>>
       ELSE /\ stack' = <<>>
            /\ cstatus' = "done"
            /\ cresult' = Returned(Top.all_reqs)
    /\ UNCHANGED <<store, initial_reqs, visited, inspected, calls>>

Skips == cstatus = "running" /\ \E req \in Top.todo : Skip(req)

Expands == cstatus = "running" /\ \E req \in Top.todo : Expand(req)

CollectIdle ==
    /\ store = [w \in {} |-> {}]
    /\ initial_reqs = {}
    /\ stack = <<>>
    /\ visited = {}
    /\ inspected = <<>>
    /\ cstatus = "off"
    /\ calls = 0
    /\ cresult = NoResult

CollectInit ==
    /\ store = [w \in {} |-> {}]
    /\ initial_reqs = {}
    /\ stack = <<>>
    /\ visited = {}
    /\ inspected = <<>>
    /\ cstatus = "idle"
    /\ calls = 0
    /\ cresult = NoResult
    /\ CodecIdle
    /\ DemuxIdle
    /\ RunIdle
    /\ InputIdle

CollectNext ==
    \/ (Call /\ UNCHANGED <<codecVars, demuxVars, runVars, inputVars, parseVars, setupVars>>)
    \/ (Skips /\ UNCHANGED <<codecVars, demuxVars, runVars, inputVars, parseVars, setupVars>>)
    \/ (Expands /\ UNCHANGED <<codecVars, demuxVars, runVars, inputVars, parseVars, setupVars>>)
    \/ (Return /\ UNCHANGED <<codecVars, demuxVars, runVars, inputVars, parseVars, setupVars>>)

SpecCollect == CollectInit /\ [][CollectNext]_vars

\* a sequential program: a call that can take a step takes it
SpecCollectFair == SpecCollect /\ WF_vars(CollectNext)

(* Successive calls of collect_requirements over the same wheel files *)

MaxCalls == 2

\* a call made after an earlier call has returned or raised
Again ==
    /\ cstatus \in {"done", "failed"}
    /\ calls < MaxCalls
    /\ initial_reqs' \in SUBSET SeedPool
    /\ cstatus' = "running"
    /\ calls' = calls + 1
    /\ visited' = FreshVisited(visited)
    /\ stack' = <<Frame(initial_reqs', AllReqs(initial_reqs'))>>
    /\ inspected' = <<>>
    /\ cresult' = NoResult
    /\ UNCHANGED store

CollectAgainNext ==
    \/ (Call /\ UNCHANGED <<codecVars, demuxVars, runVars, inputVars, parseVars, setupVars>>)
    \/ (Again /\ UNCHANGED <<codecVars, demuxVars, runVars, inputVars, parseVars, setupVars>>)
    \/ (Skips /\ UNCHANGED <<codecVars, demuxVars, runVars, inputVars, parseVars, setupVars>>)
    \/ (Expands /\ UNCHANGED <<codecVars, demuxVars, runVars, inputVars, parseVars, setupVars>>)
    \/ (Return /\ UNCHANGED <<codecVars, demuxVars, runVars, inputVars, parseVars, setupVars>>)

SpecCollectAgain == CollectInit /\ [][CollectAgainNext]_vars

----------------------------------------------------------------------------
(* Classification (utils.py) and conflict resolution (resolve.py) *)

\* the characters of the model, by code point
CharOrder ==
    <<" ", "(", ")", "+", "-", ".", "/",
      "0", "1", "2", "3", "4", "5", "6", "7", "8", "9", "=",
      "A", "B", "C", "D", "E", "F", "O", "_",
      "a", "b", "c", "d", "e", "f", "g", "h", "i", "j", "k", "l", "m",
      "n", "o", "p", "q", "r", "s", "t", "u", "v", "w", "x", "y", "z">>

Code(c) == CHOOSE i \in 1..Len(CharOrder) : CharOrder[i] = c

\* s < t, for two str, from their i-th characters on
RECURSIVE StrLessFrom(_, _, _)
StrLessFrom(s, t, i) ==
    IF i > Len(t) THEN FALSE
    ELSE IF i > Len(s) THEN TRUE
    ELSE IF s[i] = t[i] THEN StrLessFrom(s, t, i + 1)
    ELSE Code(s[i]) < Code(t[i])

StrLess(s, t) == StrLessFrom(s, t, 1)

\* a < b raises TypeError: the names are equal and one version only is None
Incomparable(a, b) == a.name = b.name /\ (a.version = None) # (b.version = None)

\* a < b, for two Requirement tuples that can be compared
ReqLess(a, b) ==
    IF a.name # b.name THEN StrLess(a.name, b.name)
    ELSE IF a.version = None \/ b.version = None THEN FALSE
    ELSE StrLess(a.version, b.version)

RECURSIVE SortedSeq(_)
SortedSeq(S) ==
    IF S = {} THEN <<>>
    ELSE LET m == CHOOSE x \in S : \A y \in S \ {x} : ReqLess(x, y)
         IN  <<m>> \o SortedSeq(S \ {m})

\* sorted(S), for a set of Requirement tuples
sorted(S) ==
    IF \E a, b \in S : Incomparable(a, b) THEN Raise("TypeError")
    ELSE Ok(SortedSeq(S))

Classified(err, wbs, pys) == [err |-> err, wb |-> wbs, py |-> pys]

NotClassified == Classified("pending", <<>>, <<>>)

classify_reqs(reqs, wb_prefix) ==
    LET wbs == sorted({parse_req(r) : r \in {x \in reqs : is_wb_req(x, wb_prefix)}})
        pys == sorted({parse_req(r) : r \in {x \in reqs : ~is_wb_req(x, wb_prefix)}})
    IN  IF wbs.err # "" THEN Classified(wbs.err, <<>>, <<>>)
        ELSE IF pys.err # "" THEN Classified(pys.err, <<>>, <<>>)
        ELSE Classified("", wbs.val, pys.val)

\* the keys of the dict of group_reqs_by_name, in the order of insertion
RECURSIVE NamesInOrder(_, _)
NamesInOrder(reqs, seen) ==
    IF reqs = <<>> THEN <<>>
    ELSE IF Head(reqs).name \in seen THEN NamesInOrder(Tail(reqs), seen)
    ELSE <<Head(reqs).name>> \o NamesInOrder(Tail(reqs), seen \cup {Head(reqs).name})

group_reqs_by_name_Singletons(reqs) == [i \in 1..Len(reqs) |-> <<reqs[i]>>]

\* the values of the dict, in the order of its keys
group_reqs_by_name(reqs) ==
    LET names == NamesInOrder(reqs, {})
    IN  [i \in 1..Len(names) |-> SelectSeq(reqs, LAMBDA r : r.name = names[i])]

NoRequirement == Requirement(<<>>, None)

NoConflict_Never(versions) == FALSE

\* len(versions) == 1
NoConflict(versions) == Len(versions) = 1

Homonymous_Raw(parts, pb) == parts.branch = pb

\* wb_req_parts(r)[0] == primary_branch_normalized
Homonymous(parts, pb) == parts.branch = NormalizeBranch(pb)

FirstHomonymous_Last(homo_req) == CHOOSE i \in homo_req : \A k \in homo_req : i >= k

\* homo_req[0], as a position of versions
FirstHomonymous(homo_req) == CHOOSE i \in homo_req : \A k \in homo_req : i <= k

resolve_req_version(versions, pb) ==
    IF NoConflict(versions) THEN Ok(versions[1])
    ELSE LET parts == [i \in 1..Len(versions) |-> wb_req_parts(versions[i])]
             bad == {i \in 1..Len(versions) : parts[i].err # ""}
             homo_req == {i \in 1..Len(versions) : Homonymous(parts[i], pb)}
         IN  IF bad # {}
             THEN [err |-> parts[CHOOSE i \in bad : \A k \in bad : i <= k].err,
                   val |-> NoRequirement]
             ELSE IF homo_req # {}
             THEN Ok(versions[FirstHomonymous(homo_req)])
             ELSE Ok(versions[1])

resolve_wb_reqs(reqs, pb) ==
    LET grouped == group_reqs_by_name(reqs)
        res == [i \in 1..Len(grouped) |-> resolve_req_version(grouped[i], pb)]
        bad == {i \in 1..Len(grouped) : res[i].err # ""}
    IN  IF bad # {} THEN Raise(res[CHOOSE i \in bad : \A k \in bad : i <= k].err)
        ELSE sorted({res[i].val : i \in 1..Len(grouped)})

(* The conflict resolver and the decoder, applied on their own *)

MaxCandidates == 3

IndexFoo == <<"i", "n", "d", "e", "x", "-", "f", "o", "o">>
IndexBar == <<"i", "n", "d", "e", "x", "-", "b", "a", "r">>

VersionDeps == <<"0", ".", "0", ".", "0", "+", "f", "e", "a", "t", ".", "d", "e", "p", "s", ".", "a", "b", "c", "1", "2", "3", "4">>
VersionOther == <<"0", ".", "0", ".", "0", "+", "f", "e", "a", "t", ".", "o", "t", "h", "e", "r", ".", "d", "e", "f", "5", "6", "7", "8">>
VersionDepsLater == <<"0", ".", "0", ".", "0", "+", "f", "e", "a", "t", ".", "d", "e", "p", "s", ".", "d", "e", "f", "5", "6", "7", "8">>
VersionPlain == <<"1">>

\* the requirements resolve_wb_reqs is given
CandidatePool ==
    {Requirement(IndexFoo, v) :
        v \in {VersionDeps, VersionDepsLater, VersionOther, VersionPlain, None}}
    \cup {Requirement(IndexBar, v) : v \in {VersionDeps, VersionOther}}

CandidateLists == UNION {[1..n -> CandidatePool] : n \in 0..MaxCandidates}

PrimaryBranches == {<<"f", "e", "a", "t", "/", "d", "e", "p", "s">>, <<"f", "e", "a", "t", "-", "o", "t", "h", "e", "r">>, <<"m", "a", "i", "n">>}

ResolveInit ==
    /\ candidates \in CandidateLists
    /\ primary_branch \in PrimaryBranches
    /\ wb_resolved = NotYet
    /\ probe = None
    /\ ParseIdle
    /\ SetupIdle
    /\ decoded = NotDecoded
    /\ requirements = {}
    /\ workbook = <<>>
    /\ primary_commit = None
    /\ fallback_branch = <<>>
    /\ fallback_commit = None
    /\ op = ""
    /\ encoded = NotYet
    /\ DemuxIdle
    /\ store = [w \in {} |-> {}]
    /\ initial_reqs = {}
    /\ stack = <<>>
    /\ visited = {}
    /\ inspected = <<>>
    /\ cstatus = "off"
    /\ calls = 0
    /\ cresult = NoResult
    /\ phase = "off"
    /\ gh_token = None
    /\ env_token = None
    /\ workbooks = <<>>
    /\ status_code = 0
    /\ top_level_reqs = NotYet
    /\ classified = NotClassified
    /\ error = ""
    /\ steps = <<>>
    /\ events = <<>>
    /\ text = ""
    /\ message = NoMessage

\* resolve_wb_reqs(candidates, primary_branch)
ResolveAll ==
    /\ wb_resolved = NotYet
    /\ wb_resolved' = resolve_wb_reqs(candidates, primary_branch)
    /\ UNCHANGED <<candidates, requirements, probe, parseVars, setupVars, codecVars, demuxVars, collectVars,
                   phase, gh_token, env_token, workbooks, status_code, top_level_reqs,
                   classified, error, steps, events, text, message>>

\* wb_req_parts(req), for one of the requirements
DecodeOne ==
    /\ decoded = NotDecoded
    /\ \E i \in 1..Len(candidates) :
          /\ probe' = candidates[i]
          /\ decoded' = wb_req_parts(candidates[i])
    /\ UNCHANGED <<candidates, requirements, parseVars, setupVars, workbook, primary_branch, primary_commit,
                   fallback_branch, fallback_commit, op, encoded, demuxVars,
                   collectVars, runVars>>

ResolveNext == ResolveAll \/ DecodeOne

SpecResolve == ResolveInit /\ [][ResolveNext]_vars

(* The classifier, applied on its own *)

MaxRequirements == 3

\* the requirement strings classify_reqs is given
RequirementPool ==
    {<<"i", "n", "d", "e", "x", "-", "f", "o", "o", "=", "=", "1">>,
     <<"r", "e", "q", "u", "e", "s", "t", "s", "=", "=", "2">>,
     <<"i", "n", "d", "e", "x", "-", "b", "a", "r">>,
     <<"r", "e", "q", "u", "e", "s", "t", "s">>,
     <<"i", "n", "d", "e", "x", "-", "a", "=", "=", "1">>,
     <<"i", "n", "d", "e", "x", "-", "a", "-", "b", "=", "=", "1">>,
     <<"a", "b">>,
     <<"a", "=", "=", "1">>}

RequirementSets == {r \in SUBSET RequirementPool : Cardinality(r) <= MaxRequirements}

ClassifyInit ==
    /\ requirements \in RequirementSets
    /\ classified = NotClassified
    /\ candidates = <<>>
    /\ probe = None
    /\ ParseIdle
    /\ SetupIdle
    /\ CodecIdle
    /\ DemuxIdle
    /\ store = [w \in {} |-> {}]
    /\ initial_reqs = {}
    /\ stack = <<>>
    /\ visited = {}
    /\ inspected = <<>>
    /\ cstatus = "off"
    /\ calls = 0
    /\ cresult = NoResult
    /\ phase = "off"
    /\ gh_token = None
    /\ env_token = None
    /\ workbooks = <<>>
    /\ status_code = 0
    /\ top_level_reqs = NotYet
    /\ wb_resolved = NotYet
    /\ error = ""
    /\ steps = <<>>
    /\ events = <<>>
    /\ text = ""
    /\ message = NoMessage

\* classify_reqs(list(requirements), "index")
ClassifyAll ==
    /\ classified = NotClassified
    /\ classified' = classify_reqs(requirements, WbPrefix)
    /\ UNCHANGED <<inputVars, parseVars, setupVars, codecVars, demuxVars, collectVars,
                   phase, gh_token, env_token, workbooks, status_code, top_level_reqs,
                   wb_resolved, error, steps, events, text, message>>

ClassifyNext == ClassifyAll

SpecClassify == ClassifyInit /\ [][ClassifyNext]_vars

----------------------------------------------------------------------------
(* A resolution run (install_api.py: install_requirements) *)

\* wb_reqs: the seed of each item, in order; the first error is raised
wb_reqs(hs, pb, fb) ==
    LET enc == [i \in 1..Len(hs) |->
                    wb(hs[i].workbook, pb, hs[i].primary, fb, hs[i].fallback)]
        bad == {i \in 1..Len(hs) : enc[i].err # ""}
    IN  IF bad # {} THEN Raise(enc[CHOOSE i \in bad : \A k \in bad : i <= k].err)
        ELSE Ok([i \in 1..Len(hs) |-> enc[i].val])

\* gh_token or os.getenv("GITHUB_TOKEN")
GITHUB_TOKEN == IF Truthy(gh_token) THEN gh_token ELSE env_token

\* build_query: org_name, repo_name = repo.split("/")
QueryBuilds(repos) == \A i \in 1..Len(repos) : Len(Split(repos[i], <<"/">>)) = 2

\* build_query: one sub-query per repository, under its key, with the two
\* ref lookups
build_query(repos, pb, fb) ==
    IF ~QueryBuilds(repos) THEN Raise("ValueError")
    ELSE Ok([i \in 1..Len(repos) |->
                [key |-> Alias(repos[i]),
                 owner |-> Split(repos[i], <<"/">>)[1],
                 name |-> Split(repos[i], <<"/">>)[2],
                 primaryBranch |-> pb,
                 fallbackBranch |-> fb]])

StatusOk_Any(code) == TRUE

\* response.status_code == 200
StatusOk(code) == code = 200

\* a call of an external program or service, and the requirements it is given
Event(call, reqs) == [call |-> call, reqs |-> reqs]

\* install_reqs runs pip unless the list is empty
PipEvents(call, reqs) ==
    IF reqs = <<>> THEN <<>>
    ELSE <<Event(call, [i \in 1..Len(reqs) |-> Str(reqs[i])])>>

Posts_PerRepo(query) == [i \in 1..Len(query) |-> Event("post", <<query[i]>>)]

\* requests.post(URL, json={"query": query}, headers=HEADERS)
Posts(query) == <<Event("post", query)>>

(* Inputs of a run *)

\* the status codes of the service, and the bodies of its error responses
StatusCodes == {200, 401, 502}

Bodies == {"", "Bad credentials"}

Token == <<"t", "o", "k">>

RunWorkbookLists == {<<RepoA>>, <<RepoA, RepoB>>, <<<<"o", "a">>>>}

\* the answers of the service for one repository
RunDatas ==
    {[data_null |-> FALSE, primaryBranch |-> p, fallbackBranch |-> f] :
        p \in {Ref("none", ShortHash), Ref("ref", None)},
        f \in {Ref("none", OtherHash), Ref("ref", None)}}
    \cup {[data_null |-> FALSE, primaryBranch |-> Ref("target", None),
           fallbackBranch |-> Ref("ref", None)],
          [data_null |-> FALSE, primaryBranch |-> Ref("none", LongHash),
           fallbackBranch |-> Ref("ref", None)]}

RunResponses(repos) ==
    {[i \in 1..Len(repos) |-> Item(Alias(repos[i]), datas[i])] :
        datas \in [1..Len(repos) -> RunDatas]}

RunInit ==
    /\ phase = "start"
    /\ gh_token \in {None, <<>>, Token}
    /\ env_token \in {None, Token}
    /\ workbooks \in RunWorkbookLists
    /\ primary_branch = MainBranch
    /\ fallback_branch = OtherBranch
    /\ workbook = <<>>
    /\ primary_commit = None
    /\ fallback_commit = None
    /\ op = ""
    /\ encoded = NotYet
    /\ decoded = NotDecoded
    /\ DemuxIdle
    /\ store = [w \in {} |-> {}]
    /\ initial_reqs = {}
    /\ stack = <<>>
    /\ visited = {}
    /\ inspected = <<>>
    /\ cstatus = "off"
    /\ calls = 0
    /\ cresult = NoResult
    /\ status_code = 0
    /\ top_level_reqs = NotYet
    /\ classified = NotClassified
    /\ wb_resolved = NotYet
    /\ error = ""
    /\ steps = <<>>
    /\ events = <<>>
    /\ text = ""
    /\ message = NoMessage
    /\ InputIdle

\* the step is over: with an exception, which ends the run, or normally
Finish(step, err, next) ==
    /\ error' = err
    /\ phase' = IF err = "" THEN next ELSE "failed"
    /\ steps' = IF err = "" THEN Append(steps, step) ELSE steps

FirstStep_Fetch == "fetch"

\* lines 55-56: the statement after the check of the token
FirstStep == "sync"

TokenMissing_Never(token) == FALSE

\* line 50: if not GITHUB_TOKEN
TokenMissing(token) == ~Truthy(token)

\* lines 49-53
CheckToken ==
    /\ phase = "start"
    /\ Finish("token", IF TokenMissing(GITHUB_TOKEN) THEN "ValueError" ELSE "", FirstStep)
    /\ UNCHANGED <<gh_token, env_token, workbooks, status_code, text, message, top_level_reqs,
                   classified, wb_resolved, events, inputVars, parseVars, setupVars, codecVars, demuxVars, collectVars>>

\* line 56: sync_wheels mirrors the remote index
Sync ==
    /\ phase = "sync"
    /\ store' \in RunStores
    /\ events' = Append(events, Event("sync", <<>>))
    /\ Finish("sync", "", "fetch")
    /\ UNCHANGED <<gh_token, env_token, workbooks, status_code, text, message, top_level_reqs,
                   classified, wb_resolved, inputVars, parseVars, setupVars, codecVars, demuxVars,
                   initial_reqs, stack, visited, inspected, cstatus, cresult, calls>>

\* line 56: mkdir or aws exits with an error
SyncFails ==
    /\ phase = "sync"
    /\ events' = Append(events, Event("sync", <<>>))
    /\ Finish("sync", "ErrorReturnCode", "fetch")
    /\ UNCHANGED <<gh_token, env_token, workbooks, status_code, text, message, top_level_reqs,
                   classified, wb_resolved, inputVars, parseVars, setupVars, codecVars, demuxVars, collectVars>>

\* lines 59-61: latest_commit_hashes, one POST for all the repositories
Fetch ==
    /\ phase = "fetch"
    /\ LET query == build_query(workbooks, primary_branch, fallback_branch)
       IN  IF query.err # ""
           THEN /\ Finish("fetch", query.err, "transform")
                /\ UNCHANGED <<events, status_code, response, text, message>>
           ELSE /\ events' = events \o Posts(query.val)
                /\ \E code \in StatusCodes :
                      /\ status_code' = code
                      /\ IF StatusOk(code)
                         THEN /\ response' \in RunResponses(workbooks)
                              /\ Finish("fetch", "", "transform")
                              /\ UNCHANGED <<text, message>>
                         ELSE /\ text' \in Bodies
                              /\ message' = QueryFailed(code, text')
                              /\ response' = response
                              /\ Finish("fetch", "Exception", "transform")
    /\ UNCHANGED <<gh_token, env_token, workbooks, top_level_reqs, classified,
                   wb_resolved, inputVars, parseVars, setupVars, codecVars, hashes, collectVars>>

\* lines 59-61: requests.post raises, no response is received
FetchFails ==
    /\ phase = "fetch"
    /\ QueryBuilds(workbooks)
    /\ events' = events \o Posts(build_query(workbooks, primary_branch, fallback_branch).val)
    /\ Finish("fetch", "ConnectionError", "transform")
    /\ UNCHANGED <<gh_token, env_token, workbooks, status_code, text, message, top_level_reqs,
                   classified, wb_resolved, inputVars, parseVars, setupVars, codecVars, demuxVars, collectVars>>

\* line 62
RunTransform ==
    /\ phase = "transform"
    /\ hashes' = transform_graphql_response(response)
    /\ Finish("transform", hashes'.err, "encode")
    /\ UNCHANGED <<gh_token, env_token, workbooks, status_code, text, message, top_level_reqs,
                   classified, wb_resolved, events, inputVars, parseVars, setupVars, codecVars, response, collectVars>>

\* line 66
EncodeSeeds ==
    /\ phase = "encode"
    /\ top_level_reqs' = wb_reqs(hashes.val, primary_branch, fallback_branch)
    /\ Finish("encode", top_level_reqs'.err, "collect")
    /\ UNCHANGED <<gh_token, env_token, workbooks, status_code, text, message, classified,
                   wb_resolved, events, inputVars, parseVars, setupVars, codecVars, demuxVars, collectVars>>

RunRest == <<gh_token, env_token, workbooks, status_code, text, message, top_level_reqs,
             classified, wb_resolved, error, steps, events>>

\* lines 67-69: collect_requirements(set(top_level_reqs), ...) is called
CollectCall ==
    /\ phase = "collect"
    /\ cstatus = "off"
    /\ calls = 0
    /\ initial_reqs' = {top_level_reqs.val[i] : i \in 1..Len(top_level_reqs.val)}
    /\ Enter
    /\ UNCHANGED <<store, phase, RunRest, inputVars, parseVars, setupVars, codecVars, demuxVars>>

CollectSkips ==
    /\ phase = "collect"
    /\ Skips
    /\ UNCHANGED <<phase, RunRest, inputVars, parseVars, setupVars, codecVars, demuxVars>>

CollectExpands ==
    /\ phase = "collect"
    /\ Expands
    /\ UNCHANGED <<phase, RunRest, inputVars, parseVars, setupVars, codecVars, demuxVars>>

CollectReturn ==
    /\ phase = "collect"
    /\ Return
    /\ UNCHANGED <<phase, RunRest, inputVars, parseVars, setupVars, codecVars, demuxVars>>

\* lines 67-69: the call is over
Collected ==
    /\ phase = "collect"
    /\ cstatus \in {"done", "failed"}
    /\ Finish("collect", IF cstatus = "done" THEN "" ELSE "ValueError", "classify")
    /\ UNCHANGED <<gh_token, env_token, workbooks, status_code, text, message, top_level_reqs,
                   classified, wb_resolved, events, inputVars, parseVars, setupVars, codecVars, demuxVars, collectVars>>

\* line 73
Classify ==
    /\ phase = "classify"
    /\ classified' = classify_reqs(cresult.reqs, WbPrefix)
    /\ Finish("classify", classified'.err, "resolve")
    /\ UNCHANGED <<gh_token, env_token, workbooks, status_code, text, message, top_level_reqs,
                   wb_resolved, events, inputVars, parseVars, setupVars, codecVars, demuxVars, collectVars>>

\* line 78
Resolve ==
    /\ phase = "resolve"
    /\ wb_resolved' = resolve_wb_reqs(classified.wb, primary_branch)
    /\ Finish("resolve", wb_resolved'.err, "install_wb")
    /\ UNCHANGED <<gh_token, env_token, workbooks, status_code, text, message, top_level_reqs,
                   classified, events, inputVars, parseVars, setupVars, codecVars, demuxVars, collectVars>>

\* line 81: install_wb_reqs(wb_resolved, pypi_local)
InstallWb ==
    /\ phase = "install_wb"
    /\ events' = events \o PipEvents("pip_wb", wb_resolved.val)
    /\ Finish("install_wb", "", "install_py")
    /\ UNCHANGED <<gh_token, env_token, workbooks, status_code, text, message, top_level_reqs,
                   classified, wb_resolved, inputVars, parseVars, setupVars, codecVars, demuxVars, collectVars>>

\* line 81: pip exits with an error
InstallWbFails ==
    /\ phase = "install_wb"
    /\ wb_resolved.val # <<>>
    /\ events' = events \o PipEvents("pip_wb", wb_resolved.val)
    /\ Finish("install_wb", "ErrorReturnCode", "install_py")
    /\ UNCHANGED <<gh_token, env_token, workbooks, status_code, text, message, top_level_reqs,
                   classified, wb_resolved, inputVars, parseVars, setupVars, codecVars, demuxVars, collectVars>>

\* line 84: install_reqs(py)
InstallPy ==
    /\ phase = "install_py"
    /\ events' = events \o PipEvents("pip_py", classified.py)
    /\ Finish("install_py", "", "done")
    /\ UNCHANGED <<gh_token, env_token, workbooks, status_code, text, message, top_level_reqs,
                   classified, wb_resolved, inputVars, parseVars, setupVars, codecVars, demuxVars, collectVars>>

\* line 84: pip exits with an error
InstallPyFails ==
    /\ phase = "install_py"
    /\ classified.py # <<>>
    /\ events' = events \o PipEvents("pip_py", classified.py)
    /\ Finish("install_py", "ErrorReturnCode", "done")
    /\ UNCHANGED <<gh_token, env_token, workbooks, status_code, text, message, top_level_reqs,
                   classified, wb_resolved, inputVars, parseVars, setupVars, codecVars, demuxVars, collectVars>>

RunNext ==
    \/ CheckToken
    \/ Sync
    \/ SyncFails
    \/ Fetch
    \/ FetchFails
    \/ RunTransform
    \/ EncodeSeeds
    \/ CollectCall
    \/ CollectSkips
    \/ CollectExpands
    \/ CollectReturn
    \/ Collected
    \/ Classify
    \/ Resolve
    \/ InstallWb
    \/ InstallWbFails
    \/ InstallPy
    \/ InstallPyFails

SpecRun == RunInit /\ [][RunNext]_vars

----------------------------------------------------------------------------
(* The two requirement parsers, applied on their own (utils.py) *)

\* the strings given to the parsers: a pinned requirement as a requirement
\* file writes it, as the metadata of a wheel writes it, with a space before
\* the operator, and two bare names
LinePool ==
    {<<"i", "n", "d", "e", "x", "-", "a", "=", "=", "1">>,
     <<"i", "n", "d", "e", "x", "-", "a", " ", "(", "=", "=", "1", ")">>,
     <<"i", "n", "d", "e", "x", "-", "a", " ", "=", "=", "1">>,
     <<"i", "n", "d", "e", "x", "-", "a">>,
     <<"e", "x", "t">>}

Parsers == {"parse_pkginfo_req", "parse_req"}

LineInputs == [parser : Parsers, text : LinePool]

ParseWith(parser, s) ==
    IF parser = "parse_pkginfo_req" THEN parse_pkginfo_req(s) ELSE parse_req(s)

ParseInit ==
    /\ lines \in LineInputs \X LineInputs
    /\ parsed = <<>>
    /\ candidates = <<>>
    /\ requirements = {}
    /\ probe = None
    /\ SetupIdle
    /\ CodecIdle
    /\ DemuxIdle
    /\ CollectIdle
    /\ RunIdle

\* both strings are parsed, each by its parser
ParseBoth ==
    /\ parsed = <<>>
    /\ parsed' = <<ParseWith(lines[1].parser, lines[1].text),
                   ParseWith(lines[2].parser, lines[2].text)>>
    /\ UNCHANGED <<lines, setupVars, inputVars, codecVars, demuxVars, collectVars,
                   runVars>>

ParseNext == ParseBoth

SpecParse == ParseInit /\ [][ParseNext]_vars

----------------------------------------------------------------------------
(* Package build of a workbook tree (runner.py) *)

MaxSetups == 2

\* str.strip, for the whitespace of the model
RECURSIVE LStrip(_)
LStrip(s) == IF s # <<>> /\ IsSpace(s[1]) THEN LStrip(Tail(s)) ELSE s

RECURSIVE RStrip(_)
RStrip(s) ==
    IF s # <<>> /\ IsSpace(s[Len(s)]) THEN RStrip(SubSeq(s, 1, Len(s) - 1)) ELSE s

Strip(s) == RStrip(LStrip(s))

\* os.path.expandvars, in an environment whose only variable is V=2; the
\* lines of the model refer to it at their end only
expandvars(line) == Replace(line, <<"$", "V">>, <<"2">>)

\* the lines kept are stripped, neither empty nor comments
_parse_requirements(requirements_content) ==
    LET kept == SelectSeq(requirements_content,
                    LAMBDA line : Strip(line) # <<>> /\ ~StartsWith(Strip(line), <<"#">>))
    IN  [i \in 1..Len(kept) |-> expandvars(Strip(kept[i]))]

DefaultVersion == <<"0", ".", "0", ".", "0">>

\* self.workbook = None
NoWorkbook == <<>>

\* the Workbook read_workbook returns, which holds the properties of the tree
Workbook(props) == <<props>>

\* Workbook.package_version: properties.get("pythonPackageVersion", "0.0.0")
package_version(wbk) ==
    IF wbk[1].pythonPackageVersion = None THEN DefaultVersion
    ELSE wbk[1].pythonPackageVersion

\* Workbook.python_requirements
python_requirements(wbk) ==
    IF wbk[1].pythonRequirements = None THEN <<>>
    ELSE LET reqs == Split(wbk[1].pythonRequirements, <<",">>)
         IN  [i \in 1..Len(reqs) |-> Strip(reqs[i])]

\* the lines of the file that holds "\n".join(reqs): splitlines gives no
\* last line when it is empty
WrittenLines(reqs) ==
    IF reqs # <<>> /\ reqs[Len(reqs)] = <<>> THEN SubSeq(reqs, 1, Len(reqs) - 1)
    ELSE reqs

\* write_requirements_txt_if_needed
write_requirements_txt_if_needed(file, wbk) ==
    IF file # None THEN file ELSE WrittenLines(python_requirements(wbk))

git_package_identifier(sha_short, branch) ==
    IF sha_short = None THEN None
    ELSE (IF branch # None THEN Replace(branch, <<"/">>, <<".">>) ELSE <<"d", "e", "t", "a", "c", "h", "e", "d">>)
         \o <<".">> \o sha_short

(* Inputs of a build *)

DeclaredVersion == <<"1", ".", "2", ".", "0">>

WorkbookProperties ==
    [pythonPackageVersion : {None, DeclaredVersion},
     pythonRequirements : {None, <<>>, <<"r", "e", "q", "u", "e", "s", "t", "s", ",", " ", "a", "=", "=", "$", "V">>}]

RequirementsFiles ==
    {None,
     <<<<" ", "r", "e", "q", "u", "e", "s", "t", "s", " ">>, <<"#", " ", "p", "i", "n", "n", "e", "d">>, <<>>, <<"a", "=", "=", "$", "V">>>>}

SetupInit ==
    /\ properties \in WorkbookProperties
    /\ package_root \in BOOLEAN
    /\ requirements_txt \in RequirementsFiles
    /\ git_hash_short \in {None, <<"a", "b", "c", "1", "2", "3", "4">>}
    /\ git_branch \in {None, <<"f", "e", "a", "t", "/", "x">>}
    /\ self_workbook = NoWorkbook
    /\ built = <<>>
    /\ candidates = <<>>
    /\ requirements = {}
    /\ probe = None
    /\ ParseIdle
    /\ CodecIdle
    /\ DemuxIdle
    /\ CollectIdle
    /\ RunIdle

\* SetupRunner.setup with _setup: the keyword arguments are computed, then
\* the package is produced unless its directory is there, then setuptools
\* is called; produced tells which branch of _setup was taken
Setup(requirements_expand_vars) ==
    /\ Len(built) < MaxSetups
    /\ LET install_requires ==
               IF requirements_txt = None THEN <<>>
               ELSE IF requirements_expand_vars THEN _parse_requirements(requirements_txt)
               ELSE requirements_txt
           version ==
               IF self_workbook # NoWorkbook THEN package_version(self_workbook)
               ELSE DefaultVersion
           git_identifier == git_package_identifier(git_hash_short, git_branch)
           version_maybe_suffixed ==
               IF git_identifier # None THEN version \o <<"+">> \o git_identifier
               ELSE version
       IN  built' = Append(built, [version |-> version_maybe_suffixed,
                                   install_requires |-> install_requires,
                                   produced |-> ~package_root])
    /\ IF ~package_root
       THEN /\ self_workbook' = Workbook(properties)
            /\ package_root' = TRUE
            /\ requirements_txt' =
                  write_requirements_txt_if_needed(requirements_txt, Workbook(properties))
       ELSE UNCHANGED <<self_workbook, package_root, requirements_txt>>
    /\ UNCHANGED <<properties, git_hash_short, git_branch>>

Setups == \E requirements_expand_vars \in BOOLEAN : Setup(requirements_expand_vars)

\* SetupRunner.__init__: another runner is made over the same tree
Construct ==
    /\ self_workbook # NoWorkbook
    /\ self_workbook' = NoWorkbook
    /\ UNCHANGED <<properties, package_root, requirements_txt, git_hash_short,
                   git_branch, built>>

SetupNext ==
    \/ (Setups /\ UNCHANGED <<parseVars, inputVars, codecVars, demuxVars, collectVars, runVars>>)
    \/ (Construct /\ UNCHANGED <<parseVars, inputVars, codecVars, demuxVars, collectVars, runVars>>)

SpecSetup == SetupInit /\ [][SetupNext]_vars

----------------------------------------------------------------------------
(* Properties of the version codec, checked under SpecCodec *)

HexChars == {"0", "1", "2", "3", "4", "5", "6", "7", "8", "9",
             "a", "b", "c", "d", "e", "f", "A", "B", "C", "D", "E", "F"}

IsHex(s) == \A i \in 1..Len(s) : s[i] \in HexChars

\* a branch name git accepts (git check-ref-format --branch), on BranchChars
ValidBranch(b) ==
    /\ Len(b) >= 1
    /\ b[1] \notin {"-", "/", "."}
    /\ b[Len(b)] \notin {"/", "."}
    /\ \A i \in 1..(Len(b) - 1) :
          /\ ~(b[i] = "/" /\ b[i + 1] \in {"/", "."})
          /\ ~(b[i] = "." /\ b[i + 1] = ".")

DottedBranch(b) == [i \in 1..Len(b) |-> IF b[i] \in {"/", "-"} THEN "." ELSE b[i]]

Absent(c) == c = None \/ c = <<>>

\* C6: decoding the requirement produced by encode yields the branch with
\* every '/' and '-' replaced by '.', and the commit, for every workbook,
\* every valid branch name and every 7-character commit.
C6_RoundTrip ==
    (/\ op = "encode"
     /\ encoded.err = ""
     /\ decoded # NotDecoded
     /\ ValidBranch(primary_branch)
     /\ Len(primary_commit) = 7)
    => /\ decoded.err = ""
       /\ decoded.branch = DottedBranch(primary_branch)
       /\ decoded.commit = primary_commit

\* C7: encode fails, and produces no requirement, for every commit whose
\* length is not 7 or that contains a non-hexadecimal character.
C7_InvalidCommitFails ==
    (/\ op = "encode"
     /\ (Len(primary_commit) # 7 \/ ~IsHex(primary_commit)))
    => (encoded.err # "" /\ encoded.val = <<>>)

\* C8: encode_with_fallback builds the requirement from the primary pair
\* whenever primary_commit is present and from the fallback pair exactly
\* when it is absent; branch and commit come from the same pair.
C8_PrimaryElseFallback ==
    op = "wb" =>
        encoded = IF Absent(primary_commit)
                  THEN _wb(workbook, fallback_branch, fallback_commit)
                  ELSE _wb(workbook, primary_branch, primary_commit)

C8_Witness ==
    /\ op = "wb"
    /\ ~Absent(primary_commit)
    /\ ~Absent(fallback_commit)
    /\ primary_branch # fallback_branch
    /\ encoded.err = ""

\* C9: encode_with_fallback fails and returns no requirement when both
\* primary_commit and fallback_commit are absent.
C9_NoCommitFails ==
    (op = "wb" /\ Absent(primary_commit) /\ Absent(fallback_commit))
    => (encoded.err # "" /\ encoded.val = <<>>)

C9_Witness ==
    /\ op = "wb"
    /\ primary_commit = None
    /\ fallback_commit = None
    /\ Len(Split(workbook, <<"/">>)) = 2
    /\ encoded.err = "TypeError"

----------------------------------------------------------------------------
(* Properties of the demultiplexing, checked under SpecDemux *)

\* the lookup of a branch is null: the ref, or the short hash, is null
LookupNull(ref) == ref.null_at \in {"ref", "oid"}

BothNull(item) ==
    /\ ~item.data_null
    /\ LookupNull(item.primaryBranch)
    /\ LookupNull(item.fallbackBranch)

\* the items before the i-th all yield a commit pair
PairsBefore(i) ==
    \A j \in 1..(i - 1) :
        /\ ~response[j].data_null
        /\ response[j].primaryBranch.null_at \in {"ref", "oid", "none"}
        /\ response[j].fallbackBranch.null_at \in {"ref", "oid", "none"}
        /\ ~BothNull(response[j])

\* C10: if both branch lookups of a workbook of the response are null, the
\* demultiplexing fails and returns no result list, and the error raised at
\* the first such workbook names it (the key of its item, mapped back to
\* org/repo); every commit pair that is returned has its primary or its
\* fallback commit.
C10_NoPairWithoutCommit ==
    hashes # NotTransformed =>
        /\ (\E i \in 1..Len(response) : BothNull(response[i]))
              => (hashes.err # "" /\ hashes.val = <<>>)
        /\ \A i \in 1..Len(response) :
              (BothNull(response[i]) /\ PairsBefore(i))
              => /\ hashes.err = "ValueError"
                 /\ hashes.names = RepoWithOrg(response[i].repo)
        /\ hashes.err = ""
              => /\ Len(hashes.val) = Len(response)
                 /\ \A k \in 1..Len(hashes.val) :
                       hashes.val[k].primary # None \/ hashes.val[k].fallback # None

C10_Witness ==
    /\ hashes.err = "ValueError"
    /\ Len(response) = 2
    /\ ~BothNull(response[1])
    /\ BothNull(response[2])
    /\ response[2].primaryBranch.null_at = "oid"

\* the lookup yields no commit history: the ref is null, or a value on the
\* path down to the first edge of the history is null or empty
NoHistory(ref) ==
    ref.null_at \in {"ref", "target", "history", "edges", "edges_empty", "edge0"}

\* the side of the pair the lookup stands for
SideOf(ref) == IF NoHistory(ref) THEN None ELSE ref.oid

\* every item has, on each side, a commit or no history, and a commit on one
\* side at least
HistoryOrCommit(item) ==
    /\ ~item.data_null
    /\ \A ref \in {item.primaryBranch, item.fallbackBranch} :
          NoHistory(ref) \/ ref.null_at = "none"
    /\ ~(NoHistory(item.primaryBranch) /\ NoHistory(item.fallbackBranch))

\* C11: when the lookup of a branch yields no commit history (the ref is
\* null, or a nested value down to the first edge of the history is null or
\* empty) and the other branch has a commit, the demultiplexing does not
\* fail: that side of the pair is null and the other side keeps its commit.
C11_NullSideKeepsOther ==
    (hashes # NotTransformed /\ \A i \in 1..Len(response) : HistoryOrCommit(response[i]))
    => /\ hashes.err = ""
       /\ hashes.val = [i \in 1..Len(response) |->
                           CommitPair(RepoWithOrg(response[i].repo),
                                      SideOf(response[i].primaryBranch),
                                      SideOf(response[i].fallbackBranch))]

\* C23: the alias of a workbook maps back to the workbook: the pair built
\* from the response entry under the alias of a workbook of the batch is
\* reported for that workbook.
C23_AliasRoundTrip ==
    (hashes # NotTransformed /\ hashes.err = "") =>
        \A i \in 1..Len(response) :
            \A repo \in Repos :
                Alias(repo) = response[i].repo => hashes.val[i].workbook = repo

----------------------------------------------------------------------------
(* Properties of the transitive collector, checked under SpecCollect *)

ArtifactExists(req) == store[WheelOf[req].val] # Missing

\* the renderings of the requirements the artifact of req declares
DeclaredBy(req) ==
    IF ArtifactExists(req)
    THEN {Str(Parsed[d]) : d \in store[WheelOf[req].val]}
    ELSE {}

\* the internal requirements reachable from a set of them
RECURSIVE ReachableFrom(_)
ReachableFrom(reqs) ==
    LET more == reqs \cup (UNION {DeclaredBy(r) : r \in reqs} \cap InternalReqs)
    IN  IF more = reqs THEN reqs ELSE ReachableFrom(more)

Reachable == ReachableFrom(initial_reqs \cap InternalReqs)

Inspections(req) == Cardinality({i \in 1..Len(inspected) : inspected[i] = req})

\* C1: during one collect run no internal requirement rendering is expanded
\* (its artifact inspected) more than once, whatever the seeds and the graph.
C1_ExpandedOnce == \A req \in InternalReqs : Inspections(req) <= 1

\* a finished run over a cycle whose two requirements are both seeds
C1_Witness ==
    /\ cstatus = "done"
    /\ initial_reqs = {ReqA, ReqB, BareName}
    /\ ReqB \in DeclaredBy(ReqA)
    /\ ReqA \in DeclaredBy(ReqB)
    /\ Inspections(ReqA) = 1
    /\ Inspections(ReqB) = 1

\* C2: collect always terminates: the call eventually returns or fails.
C2_Terminates == <>(cstatus \in {"done", "failed"})

\* a run over a cycle of three requirements that returned
C2_Witness ==
    /\ cstatus = "done"
    /\ initial_reqs = {ReqA}
    /\ ReqB2 \in DeclaredBy(ReqA)
    /\ ReqB \in DeclaredBy(ReqB2)
    /\ ReqA \in DeclaredBy(ReqB)
    /\ Len(inspected) = 3

\* C3: when every reachable artifact exists, collect returns exactly the
\* renderings declared by the artifacts of the internal requirements
\* reachable from the seed.
C3_ExactlyDeclared ==
    /\ cstatus = "failed" => \E r \in Reachable : ~ArtifactExists(r)
    /\ cstatus = "done" =>
          cresult = Returned(UNION {DeclaredBy(r) : r \in Reachable})

\* the example: seed {A}, A declares [B], B declares [A, ext]
C3_Witness ==
    /\ cstatus = "done"
    /\ initial_reqs = {ReqA}
    /\ DeclaredBy(ReqA) = {ReqB}
    /\ DeclaredBy(ReqB) = {ReqA, ExtName}
    /\ cresult = Returned({ReqA, ReqB, ExtName})

\* C4: if the artifact of an internal requirement reached during collection
\* is missing, collect fails at that point and returns no requirement set.
C4_MissingArtifactFails ==
    /\ \A i \in 1..Len(inspected) :
          ~ArtifactExists(inspected[i])
          => (i = Len(inspected) /\ cstatus = "failed")
    /\ cstatus = "done" => \A r \in Reachable : ArtifactExists(r)
    /\ cstatus = "failed" => (cresult = NoResult /\ stack = <<>>)

\* the missing artifact is met two calls deep
C4_Witness ==
    /\ cstatus = "failed"
    /\ Len(inspected) = 3
    /\ ArtifactExists(inspected[1])
    /\ ArtifactExists(inspected[2])
    /\ inspected[2] \in DeclaredBy(inspected[1])
    /\ inspected[3] \in DeclaredBy(inspected[2])
    /\ ~ArtifactExists(inspected[3])

\* the rendering does not start with the internal prefix, or has no version
External(req) == ~StartsWith(req, WbPrefix) \/ parse_req(req).version = None

\* C21: collect never inspects the artifact of an external requirement (its
\* rendering does not start with the internal prefix or it has no version),
\* be it a seed or declared by an artifact: it is never expanded, and the
\* external requirements the inspected artifacts declare are in the result.
C21_ExternalNeverInspected ==
    /\ \A req \in visited : ~External(req)
    /\ \A i \in 1..Len(inspected) : ~External(inspected[i])
    /\ cstatus = "done" =>
          \A i \in 1..Len(inspected) :
              \A req \in DeclaredBy(inspected[i]) : External(req) => req \in cresult.reqs

\* a finished run with an external seed and an external declared requirement
C21_Witness ==
    /\ cstatus = "done"
    /\ BareName \in initial_reqs
    /\ ReqA \in initial_reqs
    /\ ExtName \in DeclaredBy(ReqA)
    /\ ExtName \in cresult.reqs
    /\ inspected = <<ReqA>>

\* C22: collect keeps no state between invocations: a call made after an
\* earlier call returns what it would return if it were the first, the set
\* declared by the artifacts reachable from its own seeds, and fails only for
\* a missing artifact among them; what the earlier call visited suppresses
\* no expansion.
C22_NoStateBetweenCalls ==
    calls >= 2 =>
        /\ visited \subseteq Reachable
        /\ cstatus = "done" =>
              /\ cresult = Returned(UNION {DeclaredBy(r) : r \in Reachable})
              /\ visited = Reachable
        /\ cstatus = "failed" => \E r \in Reachable : ~ArtifactExists(r)

\* the second call, with the seed of the first, has inspected the same
\* artifact again
C22_Witness ==
    /\ calls = 2
    /\ cstatus = "done"
    /\ initial_reqs = {ReqA}
    /\ DeclaredBy(ReqA) = {ReqB}
    /\ inspected = <<ReqA, ReqB>>
    /\ cresult = Returned({ReqB} \cup DeclaredBy(ReqB))

----------------------------------------------------------------------------
(* Properties of a resolution run, checked under SpecRun *)

PipelineSteps ==
    <<"token", "sync", "fetch", "transform", "encode", "collect", "classify", "resolve">>

Installing ==
    \/ phase \in {"install_wb", "install_py", "done"}
    \/ \E i \in 1..Len(events) : events[i].call \in {"pip_wb", "pip_py"}

\* C5: the installer is invoked only after the sync, the commit fetch, the
\* seed encoding, the transitive collection, the classification and the
\* conflict resolution have all completed successfully, in that order; a run
\* that one of these steps ended with an exception has installed nothing.
C5_InstallAfterPipeline ==
    /\ Installing =>
          /\ Len(steps) >= Len(PipelineSteps)
          /\ SubSeq(steps, 1, Len(PipelineSteps)) = PipelineSteps
          /\ status_code = 200
          /\ hashes.err = ""
          /\ top_level_reqs.err = ""
          /\ cstatus = "done"
          /\ classified.err = ""
          /\ wb_resolved.err = ""
          /\ \A i \in 1..Len(events) :
                events[i].call \in {"pip_wb", "pip_py"} => i > 2
    /\ (phase = "failed" /\ Len(steps) < Len(PipelineSteps)) =>
          \A i \in 1..Len(events) : events[i].call \notin {"pip_wb", "pip_py"}

\* a run that has installed internal and external requirements
C5_Witness ==
    /\ phase = "done"
    /\ \E i, j \in 1..Len(events) :
          /\ events[i].call = "pip_wb"
          /\ events[j].call = "pip_py"
          /\ Len(events[i].reqs) >= 2

PostsMade == {i \in 1..Len(events) : events[i].call = "post"}

\* latest_commit_hashes has returned or raised after building its query
FetchOver ==
    /\ QueryBuilds(workbooks)
    /\ \/ Len(steps) >= 3
       \/ phase = "failed" /\ Len(steps) = 2

\* C12: a fetch for a batch of N workbooks performs exactly one network
\* request, whose query has one sub-query per workbook with the lookups of
\* both branches; there is never a request per workbook or per branch, nor a
\* second request after a failure.
C12_OneRequest ==
    /\ Cardinality(PostsMade) <= 1
    /\ FetchOver =>
          /\ Cardinality(PostsMade) = 1
          /\ \A p \in PostsMade :
                /\ Len(events[p].reqs) = Len(workbooks)
                /\ \A i \in 1..Len(workbooks) :
                      /\ events[p].reqs[i].key = Alias(workbooks[i])
                      /\ events[p].reqs[i].owner \o <<"/">> \o events[p].reqs[i].name
                            = workbooks[i]
                      /\ events[p].reqs[i].primaryBranch = primary_branch
                      /\ events[p].reqs[i].fallbackBranch = fallback_branch

\* a run for two workbooks that has come to its end
C12_Witness ==
    /\ Len(workbooks) = 2
    /\ phase = "done"
    /\ Cardinality(PostsMade) = 1
    /\ Len(hashes.val) = 2

\* C13: when the status of the response is not a success, the fetch fails
\* with an error that carries the status code and the raw body, returns no
\* commit mapping, and makes no second request.
C13_NonSuccessFails ==
    status_code \notin {0, 200} =>
        /\ phase = "failed"
        /\ error = "Exception"
        /\ message.status = status_code
        /\ message.text = text
        /\ "fetch" \notin {steps[i] : i \in 1..Len(steps)}
        /\ response = <<>>
        /\ hashes = NotTransformed
        /\ Cardinality(PostsMade) = 1

\* a response with status 502 and a body
C13_Witness ==
    /\ status_code = 502
    /\ text = "Bad credentials"
    /\ message = [status |-> 502, text |-> "Bad credentials"]
    /\ phase = "failed"

SyncCompleted == Len(steps) >= 2 /\ steps[2] = "sync"

\* C24: the sync of the wheels is invoked before the commit fetch and before
\* any inspection of a wheel: no request is made and no wheel is inspected
\* before the sync has completed.
C24_SyncFirst ==
    /\ \A i \in 1..Len(events) :
          events[i].call # "sync" => (i > 1 /\ events[1].call = "sync" /\ SyncCompleted)
    /\ (inspected # <<>> \/ visited # {} \/ cstatus # "off") => SyncCompleted
    /\ phase \notin {"start", "sync", "failed"} => SyncCompleted

\* a run that has inspected a wheel, after the sync and the request
C24_Witness ==
    /\ Len(inspected) >= 2
    /\ Len(events) = 2
    /\ events[1].call = "sync"
    /\ events[2].call = "post"
    /\ phase = "collect"

\* the requirement strings some inspected wheel declares
DeclaredByInspected == UNION {DeclaredBy(inspected[i]) : i \in 1..Len(inspected)}

\* the requirement strings given to pip so far
Installed ==
    UNION {{events[i].reqs[k] : k \in 1..Len(events[i].reqs)} :
              i \in {j \in 1..Len(events) : events[j].call \in {"pip_wb", "pip_py"}}}

\* C27: a seed is in the result of collect, and among the requirements given
\* to the installer, only if some inspected wheel declares it.
C27_SeedOnlyIfDeclared ==
    \A seed \in initial_reqs :
        /\ (cresult.returned /\ seed \in cresult.reqs) => seed \in DeclaredByInspected
        /\ seed \in Installed => seed \in DeclaredByInspected

\* the only seed is the wheel of the first repository, which declares the
\* wheel of the second, which declares nothing: the result is the second
\* alone and it is the only requirement installed
C27_Witness ==
    /\ phase = "done"
    /\ initial_reqs = {SeedPA}
    /\ DeclaredBy(SeedPA) = {SeedPB}
    /\ DeclaredBy(SeedPB) = {}
    /\ inspected = <<SeedPA, SeedPB>>
    /\ cresult = Returned({SeedPB})
    /\ Installed = {SeedPB}

\* no token is passed, or an empty one, and the environment has none
NoCredential == gh_token \in {None, <<>>} /\ env_token = None

\* C29: without a credential the run fails before any side effect: no sync
\* of the wheel files, no network request and no install.
C29_NoCredentialNoEffect ==
    NoCredential =>
        /\ phase \in {"start", "failed"}
        /\ phase = "failed" => error = "ValueError"
        /\ events = <<>>
        /\ steps = <<>>
        /\ store = [w \in {} |-> {}]
        /\ cstatus = "off"

\* a run given an empty token, with none in the environment, has failed
C29_Witness ==
    /\ gh_token = <<>>
    /\ env_token = None
    /\ workbooks # <<>>
    /\ phase = "failed"
    /\ error = "ValueError"
    /\ events = <<>>

----------------------------------------------------------------------------
(* Properties of the conflict resolver and of the decoder, checked under *)
(* SpecResolve                                                            *)

Resolved == wb_resolved # NotYet

InputNames == {candidates[i].name : i \in 1..Len(candidates)}

\* the positions of the candidates of a name in the input list
Positions(name) == {i \in 1..Len(candidates) : candidates[i].name = name}

\* the positions of the list returned that hold a requirement of the name
Returned_For(name) ==
    {i \in 1..Len(wb_resolved.val) : wb_resolved.val[i].name = name}

Decodable(req) == req.version # None /\ Contains(req.version, <<"+">>)

\* the candidates of the name whose decoded branch is the primary branch
\* with "/" and "-" replaced by "."
Matching(name) ==
    {i \in Positions(name) :
        /\ Decodable(candidates[i])
        /\ wb_req_parts(candidates[i]).branch
              = Replace(Replace(primary_branch, <<"/">>, <<".">>), <<"-">>, <<".">>)}

\* every name with several candidates has candidates that can be decoded only
NoMalformedConflict ==
    \A name \in InputNames :
        Cardinality(Positions(name)) >= 2
        => \A i \in Positions(name) : Decodable(candidates[i])

\* C14: the list resolve returns has exactly one requirement per distinct
\* package name of its input: every name of the input once, none twice, and
\* no name that is not in the input.
C14_OnePerName ==
    (Resolved /\ wb_resolved.err = "") =>
        /\ \A name \in InputNames : Cardinality(Returned_For(name)) = 1
        /\ \A i \in 1..Len(wb_resolved.val) : wb_resolved.val[i].name \in InputNames

\* three candidates of two names are resolved to two requirements
C14_Witness ==
    /\ Resolved
    /\ wb_resolved.err = ""
    /\ Len(candidates) = 3
    /\ Cardinality(InputNames) = 2
    /\ Len(wb_resolved.val) = 2

\* C15: when a name has several candidates and exactly one of them has a
\* decoded branch equal to the normalized primary branch, resolve returns
\* that candidate, whatever its position in the input.
C15_HomonymousWins ==
    (Resolved /\ NoMalformedConflict) =>
        /\ wb_resolved.err = ""
        /\ \A name \in InputNames :
              (Cardinality(Positions(name)) >= 2 /\ Cardinality(Matching(name)) = 1)
              => \A i \in Matching(name) :
                    \E k \in 1..Len(wb_resolved.val) : wb_resolved.val[k] = candidates[i]

\* index-foo at feat.other and then at feat.deps, with primary branch
\* feat/deps: the second candidate is returned
C15_Witness ==
    /\ Resolved
    /\ primary_branch = <<"f", "e", "a", "t", "/", "d", "e", "p", "s">>
    /\ candidates = <<Requirement(IndexFoo, VersionOther), Requirement(IndexFoo, VersionDeps)>>
    /\ wb_resolved = Ok(<<Requirement(IndexFoo, VersionDeps)>>)

\* C16: when a name has several candidates and none has a decoded branch
\* equal to the normalized primary branch, resolve returns the candidate
\* whose rendering is first in lexicographic order, whatever the order of
\* the input list.
C16_FirstByRendering ==
    (Resolved /\ NoMalformedConflict) =>
        /\ wb_resolved.err = ""
        /\ \A name \in InputNames :
              (Cardinality(Positions(name)) >= 2 /\ Matching(name) = {})
              => \A k \in Returned_For(name) :
                    \A i \in Positions(name) :
                        ~StrLess(Str(candidates[i]), Str(wb_resolved.val[k]))

\* C17: a name with exactly one candidate never makes resolve fail, and that
\* candidate is returned unchanged, for every primary branch and also when
\* its version cannot be decoded.
C17_SingleUnchanged ==
    Resolved =>
        /\ (\A name \in InputNames : Cardinality(Positions(name)) = 1)
              => wb_resolved.err = ""
        /\ wb_resolved.err = "" =>
              \A name \in InputNames :
                  Cardinality(Positions(name)) = 1
                  => \A i \in Positions(name) :
                        \E k \in 1..Len(wb_resolved.val) :
                            wb_resolved.val[k] = candidates[i]

\* the only candidate has a version without a "+" segment
C17_Witness ==
    /\ Resolved
    /\ candidates = <<Requirement(IndexFoo, VersionPlain)>>
    /\ wb_resolved = Ok(candidates)

\* C20: decode fails, and returns no (branch, commit) pair, when the
\* requirement has no version or when its version has no "+" segment.
C20_MalformedVersionFails ==
    (decoded # NotDecoded /\ ~Decodable(probe)) =>
        /\ decoded.err # ""
        /\ decoded.branch = <<>>
        /\ decoded.commit = <<>>

\* a requirement with the version 1 has been given to the decoder
C20_Witness ==
    /\ probe = Requirement(IndexFoo, VersionPlain)
    /\ decoded.err = "IndexError"

\* C26: every requirement resolve returns is one of the candidates given for
\* its name, and when candidates of the name have a decoded branch equal to
\* the normalized primary branch it is the first of them in the input.
C26_ReturnedIsCandidate ==
    (Resolved /\ wb_resolved.err = "") =>
        \A k \in 1..Len(wb_resolved.val) :
            LET name == wb_resolved.val[k].name
            IN  /\ \E i \in Positions(name) : candidates[i] = wb_resolved.val[k]
                /\ Matching(name) # {}
                      => \E i \in Matching(name) :
                            /\ \A j \in Matching(name) : i <= j
                            /\ wb_resolved.val[k] = candidates[i]

\* three candidates of index-foo, the last two both at feat.deps with
\* different commits: the second of the list is returned
C26_Witness ==
    /\ Resolved
    /\ primary_branch = <<"f", "e", "a", "t", "/", "d", "e", "p", "s">>
    /\ candidates = <<Requirement(IndexFoo, VersionOther),
                      Requirement(IndexFoo, VersionDepsLater),
                      Requirement(IndexFoo, VersionDeps)>>
    /\ wb_resolved = Ok(<<Requirement(IndexFoo, VersionDepsLater)>>)

----------------------------------------------------------------------------
(* Properties of the classifier, checked under SpecClassify *)

\* the members of a list
Members(list) == {list[i] : i \in 1..Len(list)}

\* the name starts with the internal prefix and there is a version
InternalReq(req) == StartsWith(req.name, WbPrefix) /\ req.version # None

\* the requirements of the input, by name and version
InputReqs ==
    {LET parts == Split(r, <<"=", "=">>)
     IN  IF Len(parts) = 2 THEN Requirement(parts[1], parts[2]) ELSE Requirement(r, None) :
        r \in requirements}

\* C18: classify partitions its input: a requirement goes to the internal
\* list iff its name starts with the internal prefix and it has a version,
\* and to the external list otherwise; every requirement of the input is in
\* exactly one of the two lists.
C18_Partition ==
    classified # NotClassified =>
        /\ classified.err = ""
        /\ Members(classified.wb) = {r \in InputReqs : InternalReq(r)}
        /\ Members(classified.py) = {r \in InputReqs : ~InternalReq(r)}

\* the renderings of the list are in strictly ascending order
AscendingByRendering(list) ==
    \A i \in 1..(Len(list) - 1) : StrLess(Str(list[i]), Str(list[i + 1]))

\* C19: the two lists classify returns have no duplicates and are in
\* ascending order of the renderings of their requirements.
C19_SortedByRendering ==
    (classified # NotClassified /\ classified.err = "") =>
        /\ AscendingByRendering(classified.wb)
        /\ AscendingByRendering(classified.py)

\* C28: classify returns normally, raising no error, for every set of
\* requirement strings, also when a name occurs both bare and with a version.
C28_ClassifyReturns == classified # NotClassified => classified.err = ""

----------------------------------------------------------------------------
(* Properties of the requirement parsers, checked under SpecParse *)

\* C25: two Requirement values the parsers return are equal if and only if
\* their renderings are equal.
C25_EqualIffSameRendering ==
    parsed # <<>> =>
        ((parsed[1] = parsed[2]) <=> (Str(parsed[1]) = Str(parsed[2])))

----------------------------------------------------------------------------
(* Properties of the package build, checked under SpecSetup *)

\* the version without its git suffix
BaseOf(version) == Split(version, <<"+">>)[1]

\* C30: when setup produces the package of a fresh tree, the version given
\* to the build is based on the pythonPackageVersion of the workbook when
\* the workbook defines it, and on 0.0.0 only when it does not.
C30_VersionFromWorkbook ==
    \A i \in 1..Len(built) :
        built[i].produced =>
            BaseOf(built[i].version)
                = (IF properties.pythonPackageVersion # None
                   THEN properties.pythonPackageVersion
                   ELSE DefaultVersion)

====
